---- MODULE Spec2Model ----
(***************************************************************************)
(* A model of boxfuse/cloudwatchlogs-agent (package logger):               *)
(*   ScannerWriter (the tokenizer), Logger.flush (batching and delivery),  *)
(*   Trier (the retry scheduler), RateLimiter and the Logger's consumer    *)
(*   goroutine with its Close handshake.                                   *)
(* Each component has its own specification over the shared variables:     *)
(*   SpecTok     the ScannerWriter alone, with a recording token handler   *)
(*   SpecTrier   one Trier retrying a function that always fails           *)
(*   SpecFlush   one flush cycle of the Logger over any pending list       *)
(*   SpecDeliver the delivery of a batch against every remote answer       *)
(*   SpecLogger  a Logger: its writer, its consumer and callers of Close   *)
(*   SpecCycles  a Logger over several flush cycles of its timer           *)
(*   SpecRate    a RateLimiter, its refill goroutine and callers of Ready  *)
(*   SpecShutdown  the shutdown of a Logger under fair scheduling          *)
(***************************************************************************)
EXTENDS Integers, Sequences, FiniteSets, TLC

VARIABLES
    \* ---- ScannerWriter (src/unnamed/part_002:352-361)
    buf,        \* sc.buf: the backlog carried across calls (<<>> is nil)
    closed,     \* sc.closed
    \* ---- history of the calls made on the ScannerWriter
    written,    \* every byte passed to Write so far, in order
    emitted,    \* the tokens passed to tokenFunc: <<[tok, at]>>, at = offset in written
    wret,       \* what the last call returned: [op, n, err]
    nWrite,     \* number of Write calls made so far
    nFlush,     \* number of Flush calls made so far
    ovfAt,      \* lengths of written at which a Write returned the overflow error
    \* ---- Trier (src/unnamed/part_001:9-12) and the clock
    trInterval, \* t.interval, a time.Duration: signed 64-bit nanoseconds
    trExp,      \* t.expiration, nanoseconds since the start of the behaviour
    now,        \* time.Now(), nanoseconds since the start of the behaviour
    trPc,       \* where the goroutine running TryFunc stands
    trRet,      \* what TryFunc returned
    \* ---- history of the Trier
    trWaits,    \* number of calls of Wait that have slept
    trSleep,    \* the last Wait: [k, interval, rnd, w, panic]
    \* ---- Logger.flush (src/unnamed/part_002:155-263)
    pending,       \* the slice flush was called with
    logEvents,     \* flush's logEvents: what is not yet in a batch
    batch,         \* the batch being submitted
    sequenceToken, \* l.sequenceToken
    inputToken,    \* input.SequenceToken of the batch being submitted
    rateS,         \* number of items in the rate limiter's channel r.s
    rateOpen,      \* r.s is not closed
    flPc,          \* where the goroutine running flush stands
    \* ---- history of the flush
    batches,       \* the batches handed to submission, in order
    failed,        \* the batches handed to failBatch, in order
    attempts,      \* number of calls of PutLogEvents made for the current batch
    sent,          \* the latest of them: [tok, code, msg], the sequence token it
                   \* carried and the outcome it had
    \* ---- Logger (src/unnamed/part_002:63-149, 273-275, 336-340)
    events,        \* the events channel: the queued events, oldest first
    cLogEvents,    \* the consumer goroutine's logEvents
    cPc,           \* where the consumer goroutine stands
    doneClosed,    \* l.done has been closed
    closePc,       \* where each caller of Logger.Close stands
    wPc,           \* where the goroutine calling Logger.Write stands
    wData,         \* the data the running Write still has to scan
    \* ---- history of the Logger
    reqQueue,      \* per caller of Close: the queued events when its request was taken
    settled,       \* the events whose batch was delivered or abandoned
    delivered,     \* the events of the batches the remote store accepted
    calledAt,      \* per caller of Close: the number of bytes written when it called
                   \* Close, if no Write was running and the backlog was not empty; else 0
    \* ---- RateLimiter's refill goroutine (src/unnamed/part_002:496-511)
    rfPc,          \* where it stands
    rfI,           \* its loop counter i
    \* ---- history of the RateLimiter
    granted,       \* number of Ready calls that returned since the refill goroutine
                   \* last woke up (since NewRateLimiter before the first wake-up)
    readyPanics    \* a Ready call panicked

tokVars == <<buf, closed, written, emitted, wret, nWrite, nFlush, ovfAt>>

trVars == <<trInterval, trExp, now, trPc, trRet, trWaits, trSleep>>

flVars == <<pending, logEvents, batch, sequenceToken, inputToken, rateS, rateOpen,
            flPc, batches, failed, attempts, sent>>

lgVars == <<events, cLogEvents, cPc, doneClosed, closePc, wPc, wData, reqQueue, settled,
           delivered, calledAt>>

rlVars == <<rfPc, rfI, granted, readyPanics>>

vars == <<tokVars, trVars, flVars, lgVars, rlVars>>

----------------------------------------------------------------------------
(* Bounds of the model *)

\* total number of bytes written to a ScannerWriter in one behaviour
MaxInput == 5
\* longest argument of one Write call
MaxChunk == 3
\* number of Flush calls in one behaviour
MaxFlush == 2

(* Program constants *)

\* MaxMessageLength = 32 << 10 in the source; scaled to 3 bytes so that records
\* above and below the limit fit within MaxInput
MaxMessageLength == 3

\* the bytes the model writes: a content byte, line feed, carriage return
Byte == {"a", "\n", "\r"}

\* the error values of the package
NoErr == "nil"
ExceededBufferSizeLimitError == "exceeded buffer size limit"
WriterClosedError == "cannot write to closed writer"
ErrStreamBackedUp == "stream backed up"

----------------------------------------------------------------------------
(* Sequences of bytes *)

SeqsUpTo(S, n) == UNION {[1..k -> S] : k \in 0..n}

\* data[from:] of Go, from counted from 0
SliceFrom(s, from) == SubSeq(s, from + 1, Len(s))

\* bytes.IndexByte(data, c): the 0-based index of the first c, or -1
IndexByte(s, c) ==
    IF \E i \in 1..Len(s) : s[i] = c
    THEN (CHOOSE i \in 1..Len(s) : s[i] = c /\ \A j \in 1..(i - 1) : s[j] # c) - 1
    ELSE -1

\* bufio.dropCR: drop one trailing carriage return
dropCR(data) ==
    IF Len(data) > 0 /\ data[Len(data)] = "\r"
    THEN SubSeq(data, 1, Len(data) - 1)
    ELSE data

\* bufio.ScanLines(data, atEOF): [adv, nil, token]; nil tells a nil token from an
\* empty one (an empty line is a non-nil token of length 0)
ScanLines(data, atEOF) ==
    LET i == IndexByte(data, "\n") IN
    IF atEOF /\ Len(data) = 0 THEN [adv |-> 0, nil |-> TRUE, token |-> <<>>]
    ELSE IF i >= 0 THEN [adv |-> i + 1, nil |-> FALSE, token |-> dropCR(SubSeq(data, 1, i))]
    ELSE IF atEOF THEN [adv |-> Len(data), nil |-> FALSE, token |-> dropCR(data)]
    ELSE [adv |-> 0, nil |-> TRUE, token |-> <<>>]

----------------------------------------------------------------------------
(* ScannerWriter.Write *)

\* lines 388-391: the backlog is put in front of the new data
DropBacklog(b, data) == data
MergeBacklog(b, data) == b \o data

\* One iteration of the loop of lines 393-417 over the remaining data; herr is what
\* tokenFunc returns for the token of this iteration, if there is one.
\*   ret: the call returns; err: with this error; buf: the backlog it leaves;
\*   emit/token: tokenFunc was called with token; data: what remains to scan
WriteIter(data, max_buf, herr) ==
    LET s == ScanLines(data, FALSE) IN
    IF s.nil
    THEN IF s.adv = 0
         THEN IF 0 + Len(data) > max_buf
              THEN [ret |-> TRUE, err |-> ExceededBufferSizeLimitError, buf |-> <<>>,
                    emit |-> FALSE, token |-> <<>>, data |-> data]
              ELSE [ret |-> TRUE, err |-> NoErr, buf |-> data,
                    emit |-> FALSE, token |-> <<>>, data |-> <<>>]
         ELSE [ret |-> FALSE, err |-> NoErr, buf |-> <<>>,
               emit |-> FALSE, token |-> <<>>, data |-> SliceFrom(data, s.adv)]
    ELSE IF herr # NoErr
         THEN [ret |-> TRUE, err |-> herr, buf |-> <<>>,
               emit |-> TRUE, token |-> s.token, data |-> data]
         ELSE [ret |-> Len(data) = s.adv, err |-> NoErr, buf |-> <<>>,
               emit |-> TRUE, token |-> s.token,
               data |-> IF s.adv > 0 THEN SliceFrom(data, s.adv) ELSE data]

\* The whole loop with a tokenFunc that records the token and returns nil:
\* [err, buf, toks], toks the tokens handed over, each with its offset in data
RECURSIVE WriteLoop(_, _, _, _)
WriteLoop(data, off, max_buf, toks) ==
    IF Len(data) = 0 THEN [err |-> NoErr, buf |-> <<>>, toks |-> toks]
    ELSE LET r == WriteIter(data, max_buf, NoErr)
             t == IF r.emit THEN Append(toks, [tok |-> r.token, at |-> off]) ELSE toks
         IN IF r.ret THEN [err |-> r.err, buf |-> r.buf, toks |-> t]
            ELSE WriteLoop(r.data, off + (Len(data) - Len(r.data)), max_buf, t)

\* ScannerWriter.Write(data) with the recording tokenFunc
Write(data) ==
    /\ Len(written) + Len(data) <= MaxInput
    /\ written' = written \o data
    /\ IF closed
       THEN /\ wret' = [op |-> "Write", n |-> 0, err |-> WriterClosedError]
            /\ UNCHANGED <<buf, emitted, ovfAt>>
       ELSE LET all == MergeBacklog(buf, data)
                r == WriteLoop(all, Len(written) - Len(buf), MaxMessageLength, <<>>)
            IN /\ buf' = r.buf
               /\ emitted' = emitted \o r.toks
               /\ wret' = [op |-> "Write",
                           n |-> IF r.err = NoErr THEN Len(data) ELSE 0,
                           err |-> r.err]
               /\ ovfAt' = IF r.err = ExceededBufferSizeLimitError
                           THEN ovfAt \cup {Len(written')} ELSE ovfAt
    /\ nWrite' = nWrite + 1
    /\ UNCHANGED <<closed, nFlush>>

\* flush without the test of sc.closed of lines 434-436
flushUnguarded(b, isClosed, off) ==
    IF Len(b) = 0 THEN [err |-> NoErr, buf |-> <<>>, toks |-> <<>>]
    ELSE LET s == ScanLines(b, TRUE) IN
         [err |-> NoErr, buf |-> <<>>,
          toks |-> IF Len(s.token) > 0 THEN <<[tok |-> s.token, at |-> off]>> ELSE <<>>]

\* ScannerWriter.flush (lines 432-460), the part Flush and Close share:
\* [err, buf, toks]
flush(b, isClosed, off) ==
    IF isClosed THEN [err |-> WriterClosedError, buf |-> b, toks |-> <<>>]
    ELSE IF Len(b) = 0 THEN [err |-> NoErr, buf |-> <<>>, toks |-> <<>>]
    ELSE LET s == ScanLines(b, TRUE) IN
         [err |-> NoErr, buf |-> <<>>,
          toks |-> IF Len(s.token) > 0 THEN <<[tok |-> s.token, at |-> off]>> ELSE <<>>]

\* ScannerWriter.Flush
Flush ==
    LET r == flush(buf, closed, Len(written) - Len(buf)) IN
    /\ nFlush < MaxFlush
    /\ buf' = r.buf
    /\ emitted' = emitted \o r.toks
    /\ wret' = [op |-> "Flush", n |-> 0, err |-> r.err]
    /\ nFlush' = nFlush + 1
    /\ UNCHANGED <<closed, written, nWrite, ovfAt>>

\* ScannerWriter.Close (lines 462-482)
Close ==
    /\ IF closed
       THEN /\ wret' = [op |-> "Close", n |-> 0, err |-> WriterClosedError]
            /\ UNCHANGED <<buf, closed, emitted>>
       ELSE LET r == flush(buf, closed, Len(written) - Len(buf)) IN
            /\ emitted' = emitted \o r.toks
            /\ closed' = TRUE
            /\ buf' = <<>>
            /\ wret' = [op |-> "Close", n |-> 0, err |-> r.err]
    /\ UNCHANGED <<written, nWrite, nFlush, ovfAt>>

----------------------------------------------------------------------------
(* Signed 64-bit integers (int64, time.Duration), as four 16-bit limbs, least   *)
(* significant first, in two's complement: Go's arithmetic on them wraps.       *)

Limb == 65536

I64Add(a, b) ==
    LET s1 == a[1] + b[1]
        s2 == a[2] + b[2] + (s1 \div Limb)
        s3 == a[3] + b[3] + (s2 \div Limb)
        s4 == a[4] + b[4] + (s3 \div Limb)
    IN <<s1 % Limb, s2 % Limb, s3 % Limb, s4 % Limb>>

I64Zero == <<0, 0, 0, 0>>
I64One == <<1, 0, 0, 0>>
I64Neg(a) == I64Add(<<Limb - 1 - a[1], Limb - 1 - a[2], Limb - 1 - a[3], Limb - 1 - a[4]>>, I64One)
I64Sub(a, b) == I64Add(a, I64Neg(b))
I64IsNeg(a) == a[4] >= Limb \div 2
\* a < b as signed numbers
I64Less(a, b) ==
    IF I64IsNeg(a) # I64IsNeg(b) THEN I64IsNeg(a)
    ELSE \E i \in 1..4 : a[i] < b[i] /\ \A j \in (i + 1)..4 : a[j] = b[j]
I64Leq(a, b) == a = b \/ I64Less(a, b)
\* a / 2 for a >= 0
I64Half(a) ==
    <<(a[1] \div 2) + (a[2] % 2) * (Limb \div 2), (a[2] \div 2) + (a[3] % 2) * (Limb \div 2),
      (a[3] \div 2) + (a[4] % 2) * (Limb \div 2), a[4] \div 2>>
\* a * n for a small n >= 0
RECURSIVE I64Mul(_, _)
I64Mul(a, n) ==
    IF n = 0 THEN I64Zero
    ELSE LET h == I64Mul(a, n \div 2) IN
         IF n % 2 = 0 THEN I64Add(h, h) ELSE I64Add(a, I64Add(h, h))
\* the int64 of a number below 2^31
I64(n) == <<n % Limb, (n \div Limb) % Limb, 0, 0>>

----------------------------------------------------------------------------
(* Trier (src/unnamed/part_001) *)

\* time.Second, in nanoseconds
SecondNs == 1000000000
Second == I64(SecondNs)
\* time.Hour
Hour == I64Mul(Second, 3600)
\* MaxSleepInterval = 10 * time.Second
MaxSleepInterval == I64Mul(Second, 10)
ErrMaxTries == "max tries"

\* NewTrier(maxTotalTime): [interval, expiration]
NewTrier(maxTotalTime) == [interval |-> Second, expiration |-> I64Add(now, maxTotalTime)]

\* Trier.Try
Try == I64Less(now, trExp)

\* rand.Int63n(n) panics unless n > 0
Int63nPanics(n) == ~I64Less(I64Zero, n)

\* the values of rand.Int63n(n) the model draws: the least, the middle, the greatest
Int63nDraws(n) == {I64Zero, I64Half(n), I64Sub(n, I64One)}

\* line 37: interval + interval/2 - rnd, wrapping
Jittered(interval, rnd) == I64Sub(I64Add(interval, I64Half(interval)), rnd)

\* lines 37-41: the duration Wait sleeps
SleepUncapped(interval, rnd) == Jittered(interval, rnd)
SleepFor(interval, rnd) ==
    LET w == Jittered(interval, rnd) IN
    IF I64Less(MaxSleepInterval, w) THEN MaxSleepInterval ELSE w

\* time.Sleep(w): returns at once when w <= 0
AfterSleep(t, w) == IF I64Less(I64Zero, w) THEN I64Add(t, w) ELSE t

\* Trier.Wait, as a step of the goroutine standing at pc "wait"; it goes on at
\* pc next, or panics in rand.Int63n
Wait(next) ==
    /\ trPc = "wait"
    /\ IF Int63nPanics(trInterval)
       THEN /\ trPc' = "panicked"
            /\ trSleep' = [k |-> trWaits, interval |-> trInterval, rnd |-> I64Zero,
                           w |-> I64Zero, panic |-> TRUE]
            /\ UNCHANGED <<trInterval, now, trWaits>>
       ELSE \E rnd \in Int63nDraws(trInterval) :
            LET w == SleepFor(trInterval, rnd) IN
            /\ now' = AfterSleep(now, w)
            /\ trInterval' = I64Add(trInterval, trInterval)
            /\ trWaits' = trWaits + 1
            /\ trSleep' = [k |-> trWaits, interval |-> trInterval, rnd |-> rnd,
                           w |-> w, panic |-> FALSE]
            /\ trPc' = next
    /\ UNCHANGED <<trExp, trRet>>

\* no Trier exists
TrIdle ==
    /\ trInterval = I64Zero /\ trExp = I64Zero /\ now = I64Zero
    /\ trPc = "none" /\ trRet = "none" /\ trWaits = 0
    /\ trSleep = [k |-> 0, interval |-> I64Zero, rnd |-> I64Zero, w |-> I64Zero, panic |-> FALSE]


----------------------------------------------------------------------------
(* Logger.flush: batching and delivery (src/unnamed/part_002:151-271) *)

\* MaxBatchSize = 1 << 20
MaxBatchSize == 1048576
\* MaxBatchCount = 10000 in the source; scaled to 2 events so that lists of
\* MaxPending events reach it
MaxBatchCount == 2
\* NewRateLimiter(5, time.Second): the capacity of r.s
RateN == 5
\* the padding eventLength adds
EventPadding == 26

\* a *string: nil, or a string (a sequence of characters)
NilStr == [nil |-> TRUE, s |-> <<>>]
Str(s) == [nil |-> FALSE, s |-> s]

\* eventLength(e): len(*e.Message) + 26; an event carries the length of its message
eventLength(e) == e.len + EventPadding

\* the inner loop leaving after one event
FormBatchOfOne(b, batchSize, evs) ==
    IF Len(evs) > 0 THEN [batch |-> <<evs[1]>>, logEvents |-> Tail(evs)]
    ELSE [batch |-> b, logEvents |-> evs]

\* lines 178-184: the inner loop, from (batch, batchSize, logEvents) on:
\* [batch, logEvents]
RECURSIVE FormBatch(_, _, _)
FormBatch(b, batchSize, evs) ==
    IF batchSize < MaxBatchSize /\ Len(b) < MaxBatchCount /\ Len(evs) > 0
    THEN FormBatch(Append(b, evs[1]), batchSize + eventLength(evs[1]), Tail(evs))
    ELSE [batch |-> b, logEvents |-> evs]

\* the characters of an error message, and those strings.TrimSpace removes
Space == " "
White == {" ", "\t", "\n", "\r"}

\* strings.LastIndex(msg, " "), counted from 0, or -1
LastIndexSpace(msg) ==
    IF \E i \in 1..Len(msg) : msg[i] = Space
    THEN (CHOOSE i \in 1..Len(msg) : msg[i] = Space /\ \A j \in (i + 1)..Len(msg) : msg[j] # Space) - 1
    ELSE -1

\* strings.TrimSpace
RECURSIVE TrimLeft(_)
TrimLeft(t) == IF Len(t) > 0 /\ t[1] \in White THEN TrimLeft(Tail(t)) ELSE t
RECURSIVE TrimRight(_)
TrimRight(t) == IF Len(t) > 0 /\ t[Len(t)] \in White THEN TrimRight(SubSeq(t, 1, Len(t) - 1)) ELSE t
TrimSpace(t) == TrimRight(TrimLeft(t))

\* lines 222-226: input.SequenceToken after an InvalidSequenceTokenException
\* with message msg
KeepToken(tok, msg) == tok
CorrectedToken(tok, msg) ==
    LET i == LastIndexSpace(msg) IN
    IF i > -1 THEN Str(TrimSpace(SliceFrom(msg, i))) ELSE tok

\* the outcomes of one l.Service.PutLogEvents(input), by the error code the
\* callback switches on; "Other" is any other awserr.Error, "NotAws" an error that
\* is no awserr.Error
ErrorCodes == {"DataAlreadyAcceptedException", "ResourceNotFoundException",
               "InvalidParameterException", "Other", "NotAws"}
Outcomes(nexts, codes, msgs) ==
    {[code |-> "OK", next |-> n, msg |-> <<>>] : n \in nexts}
    \cup {[code |-> c, next |-> NilStr, msg |-> <<>>] : c \in codes}
    \cup {[code |-> "InvalidSequenceTokenException", next |-> NilStr, msg |-> m] : m \in msgs}

\* what the callback returns for an outcome: [nil, retry] of (error, bool)
CallbackReturn(o) ==
    CASE o.code \in {"OK", "DataAlreadyAcceptedException"} -> [nil |-> TRUE, retry |-> FALSE]
      [] o.code \in {"ResourceNotFoundException", "InvalidSequenceTokenException", "Other"}
            -> [nil |-> FALSE, retry |-> TRUE]
      [] OTHER -> [nil |-> FALSE, retry |-> FALSE]

NoAttempt == [tok |-> NilStr, code |-> "none", msg |-> <<>>]

\* line 161 and lines 163-193: the loop condition with rate.Ready(), the batch, the
\* request and the new Trier; the deferred rate.Close() when the loop ends
FlushLoop ==
    /\ flPc = "loop"
    /\ IF Len(logEvents) = 0
       THEN /\ flPc' = "done"
            /\ rateOpen' = FALSE
            /\ UNCHANGED <<logEvents, batch, inputToken, rateS, batches, attempts, sent,
                           trInterval>>
       ELSE /\ rateS < RateN
            /\ rateS' = rateS + 1
            /\ LET r == FormBatch(<<>>, 0, logEvents) IN
               /\ batch' = r.batch
               /\ logEvents' = r.logEvents
               /\ batches' = Append(batches, r.batch)
            /\ inputToken' = sequenceToken
            /\ trInterval' = Second
            /\ attempts' = 0
            /\ sent' = NoAttempt
            /\ flPc' = "try"
            /\ UNCHANGED rateOpen
    /\ UNCHANGED <<pending, sequenceToken, failed>>
    /\ UNCHANGED <<trExp, now, trPc, trRet, trWaits, trSleep>>

\* part_001:50 and 55 inside flush, and lines 257-259: the clock is not part of
\* this specification, so the deadline may have passed at any test
FlushTry ==
    /\ flPc = "try"
    /\ \/ flPc' = "call" /\ UNCHANGED failed
       \/ flPc' = "loop" /\ failed' = Append(failed, batch)
    /\ UNCHANGED <<pending, logEvents, batch, sequenceToken, inputToken, rateS, rateOpen,
                   batches, attempts, sent>>
    /\ UNCHANGED trVars

\* lines 194-259: one call of the callback with outcome o of PutLogEvents, and
\* what TryFunc and flush do with its return
FlushCall(o) ==
    /\ flPc = "call"
    /\ attempts' = attempts + 1
    /\ sent' = [tok |-> inputToken, code |-> o.code, msg |-> o.msg]
    /\ sequenceToken' = IF o.code = "OK" THEN o.next ELSE sequenceToken
    /\ inputToken' = IF o.code = "InvalidSequenceTokenException"
                     THEN CorrectedToken(inputToken, o.msg) ELSE inputToken
    /\ LET r == CallbackReturn(o) IN
       IF r.nil \/ ~r.retry
       THEN /\ flPc' = "loop"
            /\ failed' = IF r.nil THEN failed ELSE Append(failed, batch)
       ELSE /\ flPc' = "wait"
            /\ UNCHANGED failed
    /\ UNCHANGED <<pending, logEvents, batch, rateS, rateOpen, batches>>
    /\ UNCHANGED trVars

\* Trier.Wait inside flush (part_001:34-47), without the clock; its panic unwinds
\* flush, whose deferred rate.Close() runs
FlushWait ==
    /\ flPc = "wait"
    /\ IF Int63nPanics(trInterval)
       THEN /\ flPc' = "panicked"
            /\ rateOpen' = FALSE
            /\ UNCHANGED trInterval
       ELSE /\ flPc' = "try"
            /\ trInterval' = I64Add(trInterval, trInterval)
            /\ UNCHANGED rateOpen
    /\ UNCHANGED <<pending, logEvents, batch, sequenceToken, inputToken, rateS,
                   batches, failed, attempts, sent>>
    /\ UNCHANGED <<trExp, now, trPc, trRet, trWaits, trSleep>>

\* the rate limiter's goroutine takes one item out of r.s (lines 500-509)
RateRefill ==
    /\ rateOpen /\ rateS > 0
    /\ rateS' = rateS - 1
    /\ UNCHANGED <<pending, logEvents, batch, sequenceToken, inputToken, rateOpen,
                   flPc, batches, failed, attempts, sent>>
    /\ UNCHANGED trVars

\* no flush is running
FlIdle ==
    /\ pending = <<>> /\ logEvents = <<>> /\ batch = <<>>
    /\ sequenceToken = NilStr /\ inputToken = NilStr
    /\ rateS = 0 /\ rateOpen = FALSE /\ flPc = "none"
    /\ batches = <<>> /\ failed = <<>>
    /\ attempts = 0
    /\ sent = NoAttempt

----------------------------------------------------------------------------
(* RateLimiter (src/unnamed/part_002:484-524), with its refill goroutine; r.s is   *)
(* rateS and rateOpen                                                              *)

\* Ready (lines 517-520): the send on r.s returns when the channel has room, and
\* panics when the channel is closed
Ready ==
    /\ IF rateOpen
       THEN /\ rateS < RateN
            /\ rateS' = rateS + 1
            /\ granted' = granted + 1
            /\ UNCHANGED readyPanics
       ELSE /\ readyPanics' = TRUE
            /\ UNCHANGED <<rateS, granted>>
    /\ UNCHANGED <<rateOpen, rfPc, rfI>>

\* lines 498-499: time.Sleep(d) returns and the loop over i begins
RefillWake ==
    /\ rfPc = "sleep"
    /\ rfPc' = "drain" /\ rfI' = 0
    /\ granted' = 0
    /\ UNCHANGED <<rateS, rateOpen, readyPanics>>

\* lines 500-509: one iteration of the loop over i: an item is received, or the
\* closed and empty channel ends the goroutine, or the empty channel sends it back
\* to sleep; after n items the outer loop sends it to sleep as well
RefillDrain ==
    /\ rfPc = "drain"
    /\ IF rateS > 0
       THEN /\ rateS' = rateS - 1
            /\ rfI' = IF rfI + 1 < RateN THEN rfI + 1 ELSE 0
            /\ rfPc' = IF rfI + 1 < RateN THEN "drain" ELSE "sleep"
       ELSE /\ rfPc' = IF rateOpen THEN "sleep" ELSE "exited"
            /\ rfI' = 0
            /\ UNCHANGED rateS
    /\ UNCHANGED <<rateOpen, granted, readyPanics>>

\* RateLimiter.Close (lines 522-524)
RateClose ==
    /\ rateOpen
    /\ rateOpen' = FALSE
    /\ UNCHANGED <<rateS, rfPc, rfI, granted, readyPanics>>

\* no RateLimiter with a refill goroutine of its own exists
RlIdle == rfPc = "none" /\ rfI = 0 /\ granted = 0 /\ readyPanics = FALSE

----------------------------------------------------------------------------
(* The Logger: Write, the consumer goroutine, Close (src/unnamed/part_002:63-149, *)
(* 273-275, 336-340)                                                              *)

\* EventLogBufferLength = 64 << 10 in the source; scaled to 1 event so that the
\* writes of the model fill the channel
EventLogBufferLength == 1
\* the length of the JSON text of a LogMessage whose four strings are empty
EnvelopeLen == 50
\* the configuration NewLogger is called with
Instance == <<"h">>
Image == <<"i">>
Level == <<"I", "N", "F", "O">>

\* lines 116-130: the event made of a token; id tells the events apart
NewEvent(token, id) ==
    LET m == [instance |-> Instance, image |-> Image, level |-> Level, message |-> token] IN
    [id |-> id, Message |-> m,
     len |-> EnvelopeLen + Len(m.instance) + Len(m.image) + Len(m.level) + Len(m.message)]

\* the send without the default branch, on a channel that always has room
TokenFuncUnbounded(queue, e) == [err |-> NoErr, events |-> Append(queue, e)]
\* lines 132-143: the non-blocking send of the token handler: [err, events]
TokenFunc(queue, e) ==
    IF Len(queue) < EventLogBufferLength
    THEN [err |-> NoErr, events |-> Append(queue, e)]
    ELSE [err |-> ErrStreamBackedUp, events |-> queue]

Ids(evs) == {evs[i].id : i \in 1..Len(evs)}

\* Logger.Write(chunk) = sc.Write(chunk), lines 379-391: up to the loop
LgWriteBegin(chunk) ==
    /\ wPc = "idle"
    /\ written' = written \o chunk
    /\ nWrite' = nWrite + 1
    /\ IF closed
       THEN /\ wret' = [op |-> "Write", n |-> 0, err |-> WriterClosedError]
            /\ UNCHANGED <<buf, wPc, wData>>
       ELSE /\ wData' = MergeBacklog(buf, chunk)
            /\ buf' = <<>>
            /\ wPc' = "loop"
            /\ UNCHANGED wret
    /\ UNCHANGED <<closed, emitted, nFlush, ovfAt>>
    /\ UNCHANGED <<events, cLogEvents, cPc, doneClosed, closePc, reqQueue, settled, delivered, calledAt>>
    /\ UNCHANGED <<trVars, flVars, rlVars>>

\* one iteration of the loop of Write (lines 393-419) with the Logger's token
\* handler, and the return when the loop ends
LgWriteStep ==
    /\ wPc = "loop"
    /\ LET e == NewEvent(ScanLines(wData, FALSE).token, Len(emitted) + 1)
           h == TokenFunc(events, e)
           r == WriteIter(wData, MaxMessageLength, h.err)
       IN /\ emitted' = IF r.emit
                        THEN Append(emitted, [tok |-> r.token, at |-> Len(written) - Len(wData)])
                        ELSE emitted
          /\ events' = IF r.emit THEN h.events ELSE events
          /\ IF r.ret
             THEN /\ buf' = r.buf
                  /\ wret' = [op |-> "Write",
                              n |-> IF r.err = NoErr
                                    THEN Len(written) - (Len(wData) - Len(r.data)) - Len(buf)
                                    ELSE 0,
                              err |-> r.err]
                  /\ ovfAt' = IF r.err = ExceededBufferSizeLimitError
                              THEN ovfAt \cup {Len(written)} ELSE ovfAt
                  /\ wData' = <<>>
                  /\ wPc' = "idle"
             ELSE /\ wData' = r.data
                  /\ UNCHANGED <<buf, wret, ovfAt, wPc>>
    /\ UNCHANGED <<closed, written, nWrite, nFlush>>
    /\ UNCHANGED <<cLogEvents, cPc, doneClosed, closePc, reqQueue, settled, delivered, calledAt>>
    /\ UNCHANGED <<trVars, flVars, rlVars>>

\* l.flush(evs) is entered
EnterFlush(evs) ==
    /\ pending' = evs /\ logEvents' = evs /\ batch' = <<>>
    /\ inputToken' = NilStr
    /\ rateS' = 0 /\ rateOpen' = TRUE /\ flPc' = "loop"
    /\ batches' = <<>> /\ failed' = <<>>
    /\ attempts' = 0 /\ sent' = NoAttempt
    /\ UNCHANGED sequenceToken

\* l.flush has returned or was unwound, and its values are gone
LeaveFlush ==
    /\ pending' = <<>> /\ logEvents' = <<>> /\ batch' = <<>>
    /\ inputToken' = NilStr
    /\ rateS' = 0 /\ rateOpen' = FALSE /\ flPc' = "none"
    /\ batches' = <<>> /\ failed' = <<>>
    /\ attempts' = 0 /\ sent' = NoAttempt
    /\ trInterval' = I64Zero
    /\ UNCHANGED sequenceToken

\* lines 90-91: an event is received from the channel
ConsumerRecv ==
    /\ cPc = "select" /\ Len(events) > 0
    /\ cLogEvents' = Append(cLogEvents, Head(events))
    /\ events' = Tail(events)
    /\ UNCHANGED <<cPc, doneClosed, closePc, wPc, wData, reqQueue, settled, delivered, calledAt>>
    /\ UNCHANGED <<tokVars, trVars, flVars, rlVars>>

\* lines 92-94: a tick of the flush timer with a pending list that is not empty
\* (with an empty one the tick changes nothing)
ConsumerTick ==
    /\ cPc = "select" /\ Len(cLogEvents) > 0
    /\ cPc' = "tickFlush"
    /\ EnterFlush(cLogEvents)
    /\ UNCHANGED <<events, cLogEvents, doneClosed, closePc, wPc, wData, reqQueue, settled, delivered, calledAt>>
    /\ UNCHANGED <<tokVars, trVars, rlVars>>

\* a step A of the flush the consumer runs
ConsumerFlush(A) ==
    /\ cPc \in {"tickFlush", "finalFlush"}
    /\ A
    /\ settled' = IF flPc \in {"try", "call"} /\ flPc' = "loop"
                  THEN settled \cup Ids(batch) ELSE settled
    /\ delivered' = IF flPc = "call" /\ sent'.code = "OK"
                    THEN delivered \cup Ids(batch) ELSE delivered
    /\ UNCHANGED calledAt
    /\ UNCHANGED <<events, cLogEvents, cPc, doneClosed, closePc, wPc, wData, reqQueue>>
    /\ UNCHANGED <<tokVars, rlVars>>

\* lines 94-96: flush returns to the tick branch
TickFlushReturn ==
    /\ cPc = "tickFlush" /\ flPc = "done"
    /\ cLogEvents' = <<>>
    /\ cPc' = "select"
    /\ LeaveFlush
    /\ UNCHANGED <<events, doneClosed, closePc, wPc, wData, reqQueue, settled, delivered, calledAt>>
    /\ UNCHANGED <<tokVars, trExp, now, trPc, trRet, trWaits, trSleep, rlVars>>

\* lines 84-88: the deferred recover catches a panic of flush; the loop of line 82
\* goes on, with logEvents as it was
ConsumerRecover ==
    /\ cPc \in {"tickFlush", "finalFlush"} /\ flPc = "panicked"
    /\ cPc' = "select"
    /\ LeaveFlush
    /\ UNCHANGED <<events, cLogEvents, doneClosed, closePc, wPc, wData, reqQueue, settled, delivered, calledAt>>
    /\ UNCHANGED <<tokVars, trExp, now, trPc, trRet, trWaits, trSleep, rlVars>>

\* line 97: the consumer receives the shutdown request of caller c (l.done is
\* unbuffered: the send of line 337 and this receive are one step)
ConsumerDone(c) ==
    /\ cPc = "select" /\ closePc[c] = "send" /\ ~doneClosed
    /\ cPc' = "drain"
    /\ closePc' = [closePc EXCEPT ![c] = "recv"]
    /\ reqQueue' = [reqQueue EXCEPT ![c] = Ids(events)]
    /\ UNCHANGED <<events, cLogEvents, doneClosed, wPc, wData, settled, delivered, calledAt>>
    /\ UNCHANGED <<tokVars, trVars, flVars, rlVars>>

\* lines 98-101: the drain takes a queued event
DrainPull ==
    /\ cPc = "drain" /\ Len(events) > 0
    /\ cLogEvents' = Append(cLogEvents, Head(events))
    /\ events' = Tail(events)
    /\ UNCHANGED <<cPc, doneClosed, closePc, wPc, wData, reqQueue, settled, delivered, calledAt>>
    /\ UNCHANGED <<tokVars, trVars, flVars, rlVars>>

\* lines 102-103: the queue is empty, the final flush is entered
DrainFlush ==
    /\ cPc = "drain" /\ Len(events) = 0
    /\ cPc' = "finalFlush"
    /\ EnterFlush(cLogEvents)
    /\ UNCHANGED <<events, cLogEvents, doneClosed, closePc, wPc, wData, reqQueue, settled, delivered, calledAt>>
    /\ UNCHANGED <<tokVars, trVars, rlVars>>

\* line 103 returns
FinalFlushReturn ==
    /\ cPc = "finalFlush" /\ flPc = "done"
    /\ cPc' = "ack"
    /\ LeaveFlush
    /\ UNCHANGED <<events, cLogEvents, doneClosed, closePc, wPc, wData, reqQueue, settled, delivered, calledAt>>
    /\ UNCHANGED <<tokVars, trExp, now, trPc, trRet, trWaits, trSleep, rlVars>>

\* line 104: the consumer's send on l.done is received by caller c at line 338
ConsumerAck(c) ==
    /\ cPc = "ack" /\ closePc[c] = "recv"
    /\ cPc' = "closing"
    /\ closePc' = [closePc EXCEPT ![c] = "returned"]
    /\ UNCHANGED <<events, cLogEvents, doneClosed, wPc, wData, reqQueue, settled, delivered, calledAt>>
    /\ UNCHANGED <<tokVars, trVars, flVars, rlVars>>

\* lines 105-106: close(l.done) and runtime.Goexit()
ConsumerExit ==
    /\ cPc = "closing"
    /\ doneClosed' = TRUE
    /\ cPc' = "exited"
    /\ UNCHANGED <<events, cLogEvents, closePc, wPc, wData, reqQueue, settled, delivered, calledAt>>
    /\ UNCHANGED <<tokVars, trVars, flVars, rlVars>>

\* Logger.Close is called by c and reaches the send of line 337
CloseCall(c) ==
    /\ closePc[c] = "idle"
    /\ closePc' = [closePc EXCEPT ![c] = "send"]
    /\ calledAt' = [calledAt EXCEPT ![c] = IF wPc = "idle" /\ Len(buf) > 0
                                            THEN Len(written) ELSE 0]
    /\ UNCHANGED <<events, cLogEvents, cPc, doneClosed, wPc, wData, reqQueue, settled, delivered>>
    /\ UNCHANGED <<tokVars, trVars, flVars, rlVars>>

\* the send of caller c (line 337) is received by caller d, who waits at line 338
\* for the consumer's answer on the same channel
CloseTakenByCaller(c, d) ==
    /\ c # d /\ closePc[c] = "send" /\ closePc[d] = "recv" /\ ~doneClosed
    /\ closePc' = [closePc EXCEPT ![c] = "recv", ![d] = "returned"]
    /\ reqQueue' = [reqQueue EXCEPT ![c] = Ids(events)]
    /\ UNCHANGED <<events, cLogEvents, cPc, doneClosed, wPc, wData, settled, delivered, calledAt>>
    /\ UNCHANGED <<tokVars, trVars, flVars, rlVars>>

\* l.done is closed: a send on it panics, a receive from it returns
CloseOnClosed(c) ==
    /\ doneClosed /\ closePc[c] \in {"send", "recv"}
    /\ closePc' = [closePc EXCEPT ![c] = IF closePc[c] = "send" THEN "panicked" ELSE "returned"]
    /\ UNCHANGED <<events, cLogEvents, cPc, doneClosed, wPc, wData, reqQueue, settled, delivered, calledAt>>
    /\ UNCHANGED <<tokVars, trVars, flVars, rlVars>>

\* no Logger exists
LgIdle ==
    /\ events = <<>> /\ cLogEvents = <<>> /\ cPc = "none" /\ doneClosed = FALSE
    /\ closePc = <<>> /\ wPc = "none" /\ wData = <<>>
    /\ reqQueue = <<>> /\ settled = {} /\ delivered = {} /\ calledAt = <<>>

----------------------------------------------------------------------------
(* The ScannerWriter alone *)

TokInit ==
    /\ buf = <<>>
    /\ closed = FALSE
    /\ written = <<>>
    /\ emitted = <<>>
    /\ wret = [op |-> "New", n |-> 0, err |-> NoErr]
    /\ nWrite = 0
    /\ nFlush = 0
    /\ ovfAt = {}

TokNext ==
    \/ \E data \in SeqsUpTo(Byte, MaxChunk) \ {<<>>} : Write(data) /\ UNCHANGED <<trVars, flVars, lgVars, rlVars>>
    \/ Flush /\ UNCHANGED <<trVars, flVars, lgVars, rlVars>>
    \/ Close /\ UNCHANGED <<trVars, flVars, lgVars, rlVars>>

\* a new ScannerWriter, and nothing else
InitTok == TokInit /\ TrIdle /\ FlIdle /\ LgIdle /\ RlIdle

SpecTok == InitTok /\ [][TokNext]_vars

----------------------------------------------------------------------------
(* The tokenizer's claims *)

\* the tokens handed to tokenFunc, in order
Tokens == [i \in 1..Len(emitted) |-> emitted[i].tok]

\* The line-delimited decomposition of a whole input: one token per line feed, the
\* bytes before it without a closing carriage return (empty lines included), and
\* the unterminated rest as a last token when it holds a byte besides a closing
\* carriage return.
RECURSIVE LinesFrom(_, _)
LinesFrom(s, cur) ==
    IF Len(s) = 0 THEN (IF Len(dropCR(cur)) > 0 THEN <<dropCR(cur)>> ELSE <<>>)
    ELSE IF Head(s) = "\n" THEN <<dropCR(cur)>> \o LinesFrom(Tail(s), <<>>)
    ELSE LinesFrom(Tail(s), Append(cur, Head(s)))

Lines(s) == LinesFrom(s, <<>>)

\* no record of s (a maximal stretch without line feed) is longer than max
WithinCap(s, max) ==
    \A i \in 1..Len(s) : \A j \in i..Len(s) :
        (\A k \in i..j : s[k] # "\n") => j - i + 1 <= max

\* positions p and q of written (counted from 1) lie in one record
SameRecord(p, q) ==
    LET lo == IF p < q THEN p ELSE q
        hi == IF p < q THEN q ELSE p
    IN \A k \in lo..hi : written[k] # "\n"

\* Writes, however split, and then one Flush
WrittenThenFlushed == wret.op = "Flush" /\ nFlush = 1 /\ ~closed

\* C3: for a byte sequence whose records all fit the buffer cap, split in any way
\* into Write calls and followed by a Flush, no call fails and the tokens handed to
\* the handler are the line-delimited decomposition of the concatenated input,
\* empty lines included (so they do not depend on the split).
C3_BoundaryInsensitive ==
    (WrittenThenFlushed /\ WithinCap(written, MaxMessageLength))
        => /\ Tokens = Lines(written)
           /\ ovfAt = {}
           /\ wret.err = NoErr

\* C3's case: an input written in several calls, with an empty line and a last
\* record without line feed, then flushed
C3_Witness ==
    /\ WrittenThenFlushed /\ WithinCap(written, MaxMessageLength)
    /\ nWrite >= 2
    /\ Len(Tokens) >= 3
    /\ \E i \in 1..Len(Tokens) : Tokens[i] = <<>>
    /\ written[Len(written)] = "a"

\* C4: once a Write has returned the overflow error for an undelimited run longer
\* than the cap, no token made of bytes of that run is ever handed to the handler,
\* by that Write or by any later Write or Flush.
C4_NoTokenFromOverflowedRun ==
    \A p \in ovfAt : \A i \in 1..Len(emitted) :
        Len(emitted[i].tok) > 0 => ~SameRecord(emitted[i].at + 1, p)

\* C5: every token handed to the handler is at most MaxMessageLength long, and so
\* is the carried backlog.
C5_MessagesBounded ==
    /\ \A i \in 1..Len(emitted) : Len(emitted[i].tok) <= MaxMessageLength
    /\ Len(buf) <= MaxMessageLength

\* a step of an operation on a closed ScannerWriter: it returns WriterClosedError,
\* hands no token to the handler and leaves the backlog and the state as they are
ClosedStaysClosed ==
    closed => (closed' /\ wret'.err = WriterClosedError /\ emitted' = emitted /\ buf' = buf)

\* the step of a Close that succeeds
CloseSucceeds == ~closed /\ closed'

\* C17 as claimed: Open -> Closed is one-way, every operation after a successful
\* Close returns WriterClosedError, emits nothing and changes nothing, and Close
\* emits a non-empty trailing backlog as a final token before the transition.
C17_ClosedForGood ==
    [][/\ ClosedStaysClosed
       /\ (CloseSucceeds /\ Len(buf) > 0) => Len(emitted') = Len(emitted) + 1]_vars

\* C17 as amended: the same, but the final token is the trailing backlog without a
\* final carriage return, and Close emits it when it is not empty; a backlog that
\* is empty, or is a lone carriage return, gives no token.
C17_ClosedForGoodLessCR ==
    [][/\ ClosedStaysClosed
       /\ CloseSucceeds =>
            emitted' = IF Len(dropCR(buf)) > 0
                       THEN Append(emitted, [tok |-> dropCR(buf), at |-> Len(written) - Len(buf)])
                       ELSE emitted]_vars

\* C17's case: Close (no Flush was called) has emitted the trailing backlog, which
\* no line feed ended, and a later Write of more bytes was refused
C17_Witness ==
    /\ closed /\ nFlush = 0
    /\ wret = [op |-> "Write", n |-> 0, err |-> WriterClosedError]
    /\ Len(emitted) > 0
    /\ LET e == emitted[Len(emitted)] IN
       /\ Len(e.tok) > 0
       /\ e.at + Len(e.tok) < Len(written)
       /\ written[e.at + Len(e.tok) + 1] # "\n"

----------------------------------------------------------------------------
(* TryFunc with an attempt function that always fails and asks for a retry *)

\* the maximum total times the model constructs a Trier with
MaxTotalTimes == {I64Zero, I64Mul(Second, 7), I64Mul(Second, 60), Hour}
\* how long one call of the attempt function takes
AttemptTimes == {I64Zero, Second}

TrierInit ==
    /\ now = I64Zero
    /\ \E d \in MaxTotalTimes :
        /\ trInterval = NewTrier(d).interval
        /\ trExp = NewTrier(d).expiration
    /\ trPc = "try" /\ trRet = "none" /\ trWaits = 0
    /\ trSleep = [k |-> 0, interval |-> I64Zero, rnd |-> I64Zero, w |-> I64Zero, panic |-> FALSE]

\* line 50, the loop condition; line 55 when it fails
TryFuncTest ==
    /\ trPc = "try"
    /\ IF Try THEN trPc' = "call" /\ UNCHANGED trRet
       ELSE trPc' = "returned" /\ trRet' = ErrMaxTries
    /\ UNCHANGED <<trInterval, trExp, now, trWaits, trSleep>>

\* lines 51-53 with f returning (an error, true): no return, on to Wait
TryFuncCallFailing ==
    /\ trPc = "call"
    /\ \E d \in AttemptTimes : now' = I64Add(now, d)
    /\ trPc' = "wait"
    /\ UNCHANGED <<trInterval, trExp, trRet, trWaits, trSleep>>

TrierNext ==
    \/ TryFuncTest /\ UNCHANGED <<tokVars, flVars, lgVars, rlVars>>
    \/ TryFuncCallFailing /\ UNCHANGED <<tokVars, flVars, lgVars, rlVars>>
    \/ Wait("try") /\ UNCHANGED <<tokVars, flVars, lgVars, rlVars>>

\* a new Trier, and nothing else
InitTrier == TrierInit /\ TokInit /\ FlIdle /\ LgIdle /\ RlIdle

SpecTrier == InitTrier /\ [][TrierNext]_vars

\* C8: TryFunc with an always-failing, always-retryable attempt function ends only
\* by returning ErrMaxTries, and only at or after the deadline; it never ends in
\* another way (there is no panic).
C8_RetryExhaustedAtDeadline ==
    /\ trPc = "returned" => (trRet = ErrMaxTries /\ I64Leq(trExp, now))
    /\ trPc # "panicked"

\* C9: for every attempt number k, the sleep before the next attempt is well
\* defined (Wait does not panic), strictly positive, at most 10 seconds, and the
\* jittered duration it is cut from lies within half an interval of the interval.
C9_SleepWellDefined ==
    (trWaits > 0 \/ trSleep.panic) =>
        /\ ~trSleep.panic
        /\ I64Less(I64Zero, trSleep.w)
        /\ I64Leq(trSleep.w, MaxSleepInterval)
        /\ LET j == SleepUncapped(trSleep.interval, trSleep.rnd) IN
           /\ I64Leq(I64Half(trSleep.interval), j)
           /\ I64Leq(j, I64Add(trSleep.interval, I64Half(trSleep.interval)))

----------------------------------------------------------------------------
(* One flush cycle over any pending list *)

\* longest pending list a flush is called with
MaxPending == 3
\* the message lengths of the events: small, half a batch less the padding, a
\* whole batch less the padding
MsgLens == {100, 524262, 1048550}

\* the pending lists: event i of a list has id i
PendingLists ==
    UNION {{[i \in 1..n |-> [id |-> i, len |-> f[i]]] : f \in [1..n -> MsgLens]} : n \in 1..MaxPending}

\* flush(evs) has been called on a Logger whose sequence token is tok
FlushCalled(evs, tok) ==
    /\ pending = evs /\ logEvents = evs /\ batch = <<>>
    /\ sequenceToken = tok /\ inputToken = NilStr
    /\ rateS = 0 /\ rateOpen = TRUE /\ flPc = "loop"
    /\ batches = <<>> /\ failed = <<>>
    /\ attempts = 0
    /\ sent = NoAttempt

InitFlush ==
    /\ TokInit /\ TrIdle /\ LgIdle /\ RlIdle
    /\ \E evs \in PendingLists : FlushCalled(evs, NilStr)

\* the remote store's answers in this specification: success, an error that is
\* retried, an error that is not
FlushOutcomes == Outcomes({Str(<<"N">>)}, {"InvalidParameterException", "Other"}, {})

FlushNext ==
    \/ FlushLoop /\ UNCHANGED <<tokVars, lgVars, rlVars>>
    \/ FlushTry /\ UNCHANGED <<tokVars, lgVars, rlVars>>
    \/ \E o \in FlushOutcomes : FlushCall(o) /\ UNCHANGED <<tokVars, lgVars, rlVars>>
    \/ FlushWait /\ UNCHANGED <<tokVars, lgVars, rlVars>>
    \/ RateRefill /\ UNCHANGED <<tokVars, lgVars, rlVars>>

SpecFlush == InitFlush /\ [][FlushNext]_vars

\* total wire size of a batch
RECURSIVE BatchSize(_)
BatchSize(b) == IF Len(b) = 0 THEN 0 ELSE eventLength(b[1]) + BatchSize(Tail(b))

RECURSIVE Concat(_)
Concat(bs) == IF Len(bs) = 0 THEN <<>> ELSE bs[1] \o Concat(Tail(bs))

\* the flush cycle is over: flush returned, or a panic unwound it
FlushEnded == flPc \in {"done", "panicked"}

\* C1: every batch handed to submission has a total wire size of at most
\* MaxBatchSize bytes and at most MaxBatchCount events.
C1_BatchWithinBounds ==
    \A i \in 1..Len(batches) :
        BatchSize(batches[i]) <= MaxBatchSize /\ Len(batches[i]) <= MaxBatchCount

\* C2: when a flush cycle is over, the batches it formed, concatenated in the order
\* of their submission, are the pending list it was called with: every event is in
\* exactly one batch, in order, and the list was exhausted.
C2_BatchesPartitionPending ==
    FlushEnded => Concat(batches) = pending

----------------------------------------------------------------------------
(* The delivery of one or two batches against every answer of the remote store *)

\* longest message of an InvalidSequenceTokenException
MaxMsgLen == 3
\* the deadline of a batch's Trier has passed after at most this many attempts
MaxAttempts == 3
\* the characters of such a message: a token character, a space, a tab
MsgChar == {"T", " ", "\t"}
Msgs == SeqsUpTo(MsgChar, MaxMsgLen)

\* one batch, or two: each event fills a batch
WholeBatch == MaxBatchSize - EventPadding
DeliverLists == {[i \in 1..n |-> [id |-> i, len |-> WholeBatch]] : n \in 1..2}

InitDeliver ==
    /\ TokInit /\ TrIdle /\ LgIdle /\ RlIdle
    /\ \E evs \in DeliverLists : FlushCalled(evs, NilStr)

DeliverOutcomes == Outcomes({Str(<<"N">>)}, ErrorCodes, Msgs)

DeliverNext ==
    \/ FlushLoop /\ UNCHANGED <<tokVars, lgVars, rlVars>>
    \/ FlushTry /\ (flPc' = "call" => attempts < MaxAttempts) /\ UNCHANGED <<tokVars, lgVars, rlVars>>
    \/ \E o \in DeliverOutcomes : FlushCall(o) /\ UNCHANGED <<tokVars, lgVars, rlVars>>
    \/ FlushWait /\ UNCHANGED <<tokVars, lgVars, rlVars>>
    \/ RateRefill /\ UNCHANGED <<tokVars, lgVars, rlVars>>

SpecDeliver == InitDeliver /\ [][DeliverNext]_vars

\* the longest suffix of msg without a whitespace character
RECURSIVE TrailingToken(_)
TrailingToken(msg) ==
    IF Len(msg) = 0 \/ msg[Len(msg)] \in White THEN <<>>
    ELSE Append(TrailingToken(SubSeq(msg, 1, Len(msg) - 1)), msg[Len(msg)])

\* msg ends in a token that one of the characters seps separates from what is
\* before it
EndsInToken(msg, seps) ==
    LET t == TrailingToken(msg) IN
    Len(t) > 0 /\ Len(t) < Len(msg) /\ msg[Len(msg) - Len(t)] \in seps

\* a step that makes the next attempt for a batch whose latest attempt failed
\* with an invalid sequence token
RetryAfterConflict ==
    /\ flPc = "call" /\ sent.code = "InvalidSequenceTokenException"
    /\ attempts' = attempts + 1

\* C10 as claimed: when an attempt fails with 'invalid sequence token' and the
\* message ends in a whitespace-separated token T, the next attempt made for that
\* batch carries exactly T as its sequence token.
C10_WhitespaceSeparatedToken ==
    [][(RetryAfterConflict /\ EndsInToken(sent.msg, White))
        => sent'.tok = Str(TrailingToken(sent.msg))]_vars

\* C10 as amended: when an attempt fails with 'invalid sequence token' and the
\* message ends in a token T that follows a space character, the next attempt made
\* for that batch carries exactly T as its sequence token.
C10_SpaceSeparatedToken ==
    [][(RetryAfterConflict /\ EndsInToken(sent.msg, {Space}))
        => sent'.tok = Str(TrailingToken(sent.msg))]_vars

\* C10's case: the retry after a conflict has been made, carrying the token "T"
\* that only the conflict's message can have given it (the Logger's own token is
\* another), and it met a conflict whose message ends in " TT"
C10_Witness ==
    /\ attempts >= 2
    /\ sent.tok = Str(<<"T">>)
    /\ sequenceToken # sent.tok
    /\ sent.code = "InvalidSequenceTokenException"
    /\ sent.msg = <<" ", "T", "T">>
    /\ inputToken = Str(<<"T", "T">>)

\* the goroutine stands in Trier.Wait and will sleep there for a positive time
BackoffSleeps ==
    /\ flPc = "wait" /\ ~Int63nPanics(trInterval)
    /\ \A rnd \in Int63nDraws(trInterval) : I64Less(I64Zero, SleepFor(trInterval, rnd))

\* C11: after an attempt that failed with 'invalid sequence token' the retry is
\* immediate, no backoff sleep of the Trier lies between that attempt and the next
\* one; after any other retryable error the retry comes only after a backoff sleep.
C11_ConflictRetriedWithoutBackoff ==
    /\ sent.code = "InvalidSequenceTokenException" => ~BackoffSleeps
    /\ (flPc = "wait" /\ sent.code \in {"ResourceNotFoundException", "Other"}) => BackoffSleeps

\* a step that calls PutLogEvents
PutLogEventsCalled == flPc = "call" /\ attempts' = attempts + 1

\* C12: the Logger's sequence token follows the remote store: a success sets it to
\* the response's next token, an 'invalid sequence token' conflict sets it to the
\* corrected token of the message, and no other outcome changes it.
C12_TokenFollowsRemote ==
    [][PutLogEventsCalled =>
        /\ sent'.code = "OK" =>
              sequenceToken' \in {o.next : o \in {x \in DeliverOutcomes : x.code = "OK"}}
        /\ (sent'.code = "InvalidSequenceTokenException" /\ LastIndexSpace(sent'.msg) > -1) =>
              sequenceToken' = CorrectedToken(sent'.tok, sent'.msg)
        /\ sent'.code \notin {"OK", "InvalidSequenceTokenException"} =>
              sequenceToken' = sequenceToken]_vars

----------------------------------------------------------------------------
(* A Logger with a writer, the flush timer and callers of Close *)

\* total number of bytes written to the Logger in one behaviour
MaxLogInput == 2
\* longest argument of one Logger.Write
MaxLogChunk == 2
\* number of goroutines that call Logger.Close
NumClosers == 2
\* number of calls of the remote store one flush of the Logger may make
MaxLogAttempts == 35
\* the bytes written to the Logger
LogByte == {"a", "\n"}
Closers == 1..NumClosers

\* NewLogger has returned (lines 63-149)
InitLogger ==
    /\ TokInit /\ TrIdle /\ FlIdle /\ RlIdle
    /\ events = <<>> /\ cLogEvents = <<>> /\ cPc = "select" /\ doneClosed = FALSE
    /\ closePc = [c \in Closers |-> "idle"]
    /\ wPc = "idle" /\ wData = <<>>
    /\ reqQueue = [c \in Closers |-> {}]
    /\ settled = {} /\ delivered = {}
    /\ calledAt = [c \in Closers |-> 0]

\* the remote store's answers in this specification: success, or an error that
\* is retried
LoggerOutcomes == Outcomes({Str(<<"N">>)}, {"Other"}, {})

LoggerNext ==
    \/ \E chunk \in SeqsUpTo(LogByte, MaxLogChunk) \ {<<>>} :
        Len(written) + Len(chunk) <= MaxLogInput /\ LgWriteBegin(chunk)
    \/ LgWriteStep
    \/ ConsumerRecv
    \/ ConsumerTick
    \/ ConsumerFlush(FlushLoop)
    \/ ConsumerFlush(FlushTry /\ (flPc' = "call" => attempts < MaxLogAttempts))
    \/ \E o \in LoggerOutcomes : ConsumerFlush(FlushCall(o))
    \/ ConsumerFlush(FlushWait)
    \/ ConsumerFlush(RateRefill)
    \/ TickFlushReturn
    \/ ConsumerRecover
    \/ \E c \in Closers : ConsumerDone(c)
    \/ DrainPull
    \/ DrainFlush
    \/ FinalFlushReturn
    \/ \E c \in Closers : ConsumerAck(c)
    \/ ConsumerExit
    \/ \E c \in Closers : CloseCall(c)
    \/ \E c, d \in Closers : CloseTakenByCaller(c, d)
    \/ \E c \in Closers : CloseOnClosed(c)

SpecLogger == InitLogger /\ [][LoggerNext]_vars

\* number of line feeds in s
RECURSIVE CountLF(_)
CountLF(s) == IF Len(s) = 0 THEN 0 ELSE (IF Head(s) = "\n" THEN 1 ELSE 0) + CountLF(Tail(s))

\* C6: a message that finds the event queue full is dropped alone: Logger.Write
\* does not return the failure, and when a Write has returned without an overflow
\* every complete line written so far has been handed to the token handler.
C6_BackpressureAbsorbed ==
    /\ wret.err # ErrStreamBackedUp
    /\ (wPc = "idle" /\ ovfAt = {}) => Len(emitted) = CountLF(written)

\* C7: a Logger.Close that has returned has waited for the consumer: the consumer
\* has signalled completion, and every event that was queued when the shutdown was
\* requested went through the final flush (its batch was delivered or abandoned).
C7_CloseWaitsForFinalFlush ==
    \A c \in Closers :
        closePc[c] = "returned" =>
            /\ cPc \in {"closing", "exited"}
            /\ reqQueue[c] \subseteq settled

\* a step in which the token handler is called with a token
HandlerCalled == wPc = "loop" /\ Len(emitted') = Len(emitted) + 1

\* C18: enqueueing never blocks the producer, whatever the consumer does: a Write
\* that is scanning can always take its next step; when the handler is called and
\* the queue has room the event is appended to it, and when the queue is full the
\* queue stays as it is and the call ends with the backpressure error; the queue
\* never holds more than EventLogBufferLength events.
C18_EnqueueNeverBlocks ==
    /\ [](Len(events) <= EventLogBufferLength)
    /\ [](wPc = "loop" => ENABLED LgWriteStep)
    /\ [][HandlerCalled =>
            IF Len(events) < EventLogBufferLength
            THEN /\ Len(events') = Len(events) + 1
                 /\ SubSeq(events', 1, Len(events)) = events
                 /\ events'[Len(events')].Message.message = emitted'[Len(emitted')].tok
                 /\ wret'.err # ErrStreamBackedUp
            ELSE /\ events' = events
                 /\ wret' = [op |-> "Write", n |-> 0, err |-> ErrStreamBackedUp]]_vars

\* C18's case: the consumer has terminated, the queue is full, and a Write got the
\* backpressure error after an earlier event had been accepted
C18_Witness ==
    /\ cPc = "exited"
    /\ Len(events) = EventLogBufferLength
    /\ wret.err = ErrStreamBackedUp
    /\ Len(emitted) >= 2

\* C19: a trailing record that no line feed ended is not lost at stream end: when
\* Close was called after the Writes had returned, and the bytes written until then
\* end in an unterminated record, then once Close has returned that record has been
\* handed to the handler as a message and its batch has been through the final flush.
C19_TrailingRecordDelivered ==
    \A c \in Closers :
        (closePc[c] = "returned" /\ calledAt[c] > 0)
        => \E i \in 1..Len(emitted) :
              /\ emitted[i].at + Len(emitted[i].tok) = calledAt[c]
              /\ i \in settled

----------------------------------------------------------------------------
(* A Logger over several flush cycles of the timer: its writer and its consumer *)

\* total number of bytes written to the Logger in one behaviour
MaxCycleInput == 3

\* the remote store's answers: success, an error that is not retried, one that is
CycleOutcomes == Outcomes({Str(<<"N">>)}, {"InvalidParameterException", "Other"}, {})

CyclesNext ==
    \/ \E chunk \in SeqsUpTo(LogByte, MaxLogChunk) \ {<<>>} :
        Len(written) + Len(chunk) <= MaxCycleInput /\ LgWriteBegin(chunk)
    \/ LgWriteStep
    \/ ConsumerRecv
    \/ ConsumerTick
    \/ ConsumerFlush(FlushLoop)
    \/ ConsumerFlush(FlushTry /\ (flPc' = "call" => attempts < MaxLogAttempts))
    \/ \E o \in CycleOutcomes : ConsumerFlush(FlushCall(o))
    \/ ConsumerFlush(FlushWait)
    \/ ConsumerFlush(RateRefill)
    \/ TickFlushReturn
    \/ ConsumerRecover

SpecCycles == InitLogger /\ [][CyclesNext]_vars

\* C13: a batch that has ended - abandoned after an error that is not retried or
\* after its Trier's deadline, or ended in success or 'already accepted' - is never
\* submitted again: no later call of PutLogEvents, in the same flush cycle or in a
\* later one, carries any of its events.
C13_EndedBatchNeverResubmitted ==
    [][PutLogEventsCalled => Ids(batch) \cap settled = {}]_vars

\* C14: the events the remote store accepts arrive in the order in which they were
\* enqueued: every event of an accepted batch was enqueued after every event
\* accepted before.
C14_AcceptedInArrivalOrder ==
    [][(PutLogEventsCalled /\ sent'.code = "OK") =>
        \A i \in Ids(batch) : \A d \in delivered : d < i]_vars

\* a flush cycle is over that was forced after a small input of complete lines:
\* no Write is running, nothing is left in the backlog or in the queue, every line
\* was handed to the handler and none of the events was refused
ForcedFlushOver ==
    /\ cPc \in {"tickFlush", "finalFlush"} /\ flPc = "done"
    /\ wPc = "idle" /\ buf = <<>> /\ events = <<>>
    /\ Len(written) > 0
    /\ Len(emitted) = CountLF(written)
    /\ Len(emitted) <= MaxBatchCount
    /\ \A i \in 1..Len(emitted) : i \in settled \cup Ids(pending)

\* the one batch of the lines of written: an event per line, in input order, each
\* with the configured instance, image and level and the line as its message
IsBatchOfLines(b) ==
    /\ Len(b) = Len(Lines(written))
    /\ \A i \in 1..Len(b) :
        /\ b[i].Message = [instance |-> Instance, image |-> Image, level |-> Level,
                           message |-> Lines(written)[i]]
        /\ b[i].len = EnvelopeLen + Len(Instance) + Len(Image) + Len(Level)
                        + Len(Lines(written)[i])

\* C16 as claimed: when a small input of complete lines was written and a flush
\* forced, that flush has submitted exactly one batch, with one event per line in
\* input order - whatever the timer and the consumer did in between.
C16_OneBatchOfAllLines ==
    ForcedFlushOver => (Len(batches) = 1 /\ IsBatchOfLines(batches[1]))

\* C16 as amended: the same when all the events of the input are in the pending
\* list the flush was called with, that is when no flush of the timer took some of
\* them before.
C16_OneBatchOfPendingLines ==
    (ForcedFlushOver /\ Ids(pending) = 1..Len(emitted))
        => (Len(batches) = 1 /\ IsBatchOfLines(batches[1]))

\* C16's case: the lines "a" and "" were written in two calls, received one after
\* the other, and the flush that followed has delivered them in one batch
C16_Witness ==
    /\ ForcedFlushOver /\ Ids(pending) = 1..Len(emitted)
    /\ written = <<"a", "\n", "\n">>
    /\ nWrite = 2
    /\ Len(batches) = 1 /\ Len(batches[1]) = 2
    /\ batches[1][1].Message.message = <<"a">>
    /\ delivered = {1, 2}

----------------------------------------------------------------------------
(* A RateLimiter of capacity RateN, its refill goroutine and callers of Ready *)

\* NewRateLimiter(RateN, d) has returned (lines 492-515)
InitRate ==
    /\ TokInit /\ TrIdle /\ LgIdle
    /\ pending = <<>> /\ logEvents = <<>> /\ batch = <<>>
    /\ sequenceToken = NilStr /\ inputToken = NilStr
    /\ flPc = "none" /\ batches = <<>> /\ failed = <<>>
    /\ attempts = 0 /\ sent = NoAttempt
    /\ rateS = 0 /\ rateOpen = TRUE
    /\ rfPc = "sleep" /\ rfI = 0 /\ granted = 0 /\ readyPanics = FALSE

RateFrame ==
    UNCHANGED <<tokVars, trVars, lgVars, pending, logEvents, batch, sequenceToken,
                inputToken, flPc, batches, failed, attempts, sent>>

RateNext ==
    \/ Ready /\ RateFrame
    \/ RefillWake /\ RateFrame
    \/ RefillDrain /\ RateFrame
    \/ RateClose /\ RateFrame

SpecRate == InitRate /\ [][RateNext]_vars

\* C15: between two consecutive wake-ups of the refill goroutine (and before the
\* first one) at most RateN calls of Ready are admitted: a further call stays
\* blocked until the next wake-up.
C15_AtMostNPerInterval == granted <= RateN

----------------------------------------------------------------------------
(* The shutdown of a Logger that one line was written to, with one caller of Close *)

\* the only caller of Close in this specification
TheCloser == 1

ShutdownNext ==
    \/ Len(written) = 0 /\ LgWriteBegin(<<"\n">>)
    \/ LgWriteStep
    \/ ConsumerRecv
    \/ ConsumerTick
    \/ ConsumerFlush(FlushLoop)
    \/ ConsumerFlush(FlushTry /\ (flPc' = "call" => attempts < MaxLogAttempts))
    \/ \E o \in LoggerOutcomes : ConsumerFlush(FlushCall(o))
    \/ ConsumerFlush(FlushWait)
    \/ ConsumerFlush(RateRefill)
    \/ TickFlushReturn
    \/ ConsumerRecover
    \/ ConsumerDone(TheCloser)
    \/ DrainPull
    \/ DrainFlush
    \/ FinalFlushReturn
    \/ ConsumerAck(TheCloser)
    \/ ConsumerExit
    \/ CloseCall(TheCloser)

\* what the goroutines do when they are scheduled: the consumer, with its timer
\* and the flush it runs, and the running Write
Scheduled ==
    \/ LgWriteStep
    \/ ConsumerRecv
    \/ ConsumerTick
    \/ ConsumerFlush(FlushLoop)
    \/ ConsumerFlush(FlushTry /\ (flPc' = "call" => attempts < MaxLogAttempts))
    \/ \E o \in LoggerOutcomes : ConsumerFlush(FlushCall(o))
    \/ ConsumerFlush(FlushWait)
    \/ TickFlushReturn
    \/ ConsumerRecover
    \/ DrainPull
    \/ DrainFlush
    \/ FinalFlushReturn
    \/ ConsumerAck(TheCloser)
    \/ ConsumerExit

\* every goroutine that can run is scheduled; nothing is assumed about the remote
\* store's answers or about when Close is called
SpecShutdown == InitLogger /\ [][ShutdownNext]_vars /\ WF_vars(Scheduled)

\* C20: every call of Logger.Close returns: once the consumer has taken the
\* shutdown request it does not go back to its normal loop, and the caller whose
\* request was taken gets its answer.
C20_CloseReturns ==
    /\ [][(cPc \in {"drain", "finalFlush", "ack"} => cPc' # "select")]_vars
    /\ (closePc[TheCloser] = "recv") ~> (closePc[TheCloser] = "returned")

====
